---- MODULE Spec2Model ----
(***************************************************************************)
(* Part-of-speech tagging pipeline of berttagr_file.                       *)
(*                                                                         *)
(*   src/src/pos_tagging.rs  POSModel::new / predict / is_punctuation      *)
(*   src/src/rusttagr.rs     try_tag / rust_tag_r                          *)
(*   src/src/main.rs         main (file-based driver)                      *)
(*                                                                         *)
(* Scores are f64 probabilities; they are represented in tenths            *)
(* (0 .. 10 for 0.0 .. 1.0) together with a distinguished NaN value.       *)
(* Strings are sequences of one-character strings.                         *)
(***************************************************************************)
EXTENDS Integers, Sequences, FiniteSets, TLC

VARIABLES
    \* ---- one token through the punctuation heuristic (predict's closure)
    hpc,        \* "raw" | "once" | "twice" | "off"
    token,      \* the aggregated token handed over by the backend
    once,       \* the token after the closure of lines 139-147
    twice,      \* the closure applied to its own output
    \* ---- POSModel::predict on a batch of texts
    ppc,        \* "ready" | "predicted" | "off"
    self,       \* the constructed POSModel: its configuration
    input,      \* the batch: one sequence of raw predictions per text
    output,     \* predict(input)
    perm,       \* a permutation of the batch positions
    outputPerm, \* predict of the permuted batch
    outputAlone, \* predict of each text alone
    \* ---- concurrent predict calls on one constructed POSModel
    pipeline,   \* the shared POSModel, borrowed as &self by every call
    cpc,        \* per caller: "idle" | "tokens" | "done" | "off"
    cinput,     \* per caller: the text of its call
    csequence,  \* per caller: the backend's tokens not yet mapped (local)
    ctags,      \* per caller: the POSTags collected so far (local)
    cresult,    \* per caller: the value returned
    \* ---- the file-based driver: main -> rust_tag_r -> try_tag
    mpc,        \* "start" | "reading" | "constructing" | "predicting" |
                \* "writing" | "exited" | "aborted" | "off"
    argc,       \* cmd_args.len()
    inFile,     \* the input file: readable or not, and its text
    outFile0,   \* the output file before the run
    outFile,    \* the output file
    contents,   \* main's `contents`
    result,     \* main's `result`
    writes,     \* the payloads handed to fs::write, in order
    aborted     \* where the process panicked, "" if it did not

hvars == <<hpc, token, once, twice>>
pvars == <<ppc, self, input, output, perm, outputPerm, outputAlone>>
cvars == <<pipeline, cpc, cinput, csequence, ctags, cresult>>
mvars == <<mpc, argc, inFile, outFile0, outFile, contents, result, writes, aborted>>

vars == <<hpc, token, once, twice,
          ppc, self, input, output, perm, outputPerm, outputAlone,
          pipeline, cpc, cinput, csequence, ctags, cresult,
          mpc, argc, inFile, outFile0, outFile, contents, result, writes, aborted>>

(***************************************************************************)
(* Bounds of the model.                                                    *)
(***************************************************************************)
MaxWordLen == 2
\* fragments of a text predicted on its own
MaxFrags == 3
\* texts of a batch
MaxBatch == 2
\* concurrent callers of predict
NumCallers == 2
\* command-line words handed to main, the program name included
MaxArgs == 4

(***************************************************************************)
(* Values.                                                                 *)
(***************************************************************************)
\* f64::NAN, outside the range of the valid scores
NaN == 0 - 1
\* the literal 0.5 of the score test, in tenths
Threshold == 5
\* the literal 1f64 written by the override, in tenths
One == 10

\* characters the tokens are made of; '!' and '.' are ASCII punctuation
Alphabet == {"a", "!", "."}
AsciiPunctuation == {"!", "."}

Labels == {"NN", "VB", "."}
Scores == {0, 2, 4, 5, 9, 10, NaN}

RECURSIVE StringsUpTo(_)
StringsUpTo(n) ==
    IF n = 0 THEN {<<>>}
    ELSE LET shorter == StringsUpTo(n - 1)
         IN  shorter \cup {Append(s, c) : s \in {t \in shorter : Len(t) = n - 1}, c \in Alphabet}

Words == StringsUpTo(MaxWordLen)

\* rust_bert Token as predict uses it: text, label, score
Tokens == [text : Words, label : Labels, score : Scores]

NoToken == [text |-> <<>>, label |-> "", score |-> 0]

(***************************************************************************)
(* f64 comparison and test.                                                *)
(***************************************************************************)
\* f64::is_nan
is_nan(x) == x = NaN

\* f64 `<`: false as soon as one side is NaN
lt(x, y) == ~is_nan(x) /\ ~is_nan(y) /\ x < y

\* char::is_ascii_punctuation
is_ascii_punctuation(c) == c \in AsciiPunctuation

(***************************************************************************)
(* POSModel::is_punctuation: Iterator::all over the characters, which is   *)
(* true of the empty string.                                               *)
(***************************************************************************)
is_punctuation(string) ==
    \A i \in 1..Len(string) : is_ascii_punctuation(string[i])

(***************************************************************************)
(* The first closure of predict's inner map (lines 139-147).               *)
(***************************************************************************)
\* variant: the is_nan test is left out
Heuristic_noNaN(tk) ==
    IF is_punctuation(tk.text) /\ lt(tk.score, Threshold)
    THEN [tk EXCEPT !.label = ".", !.score = One]
    ELSE tk

\* variant: the score is not looked at
Heuristic_anyScore(tk) ==
    IF is_punctuation(tk.text)
    THEN [tk EXCEPT !.label = ".", !.score = One]
    ELSE tk

\* variant: the score is raised instead of being set to 1.0
Heuristic_boost(tk) ==
    IF is_punctuation(tk.text) /\ (lt(tk.score, Threshold) \/ is_nan(tk.score))
    THEN [tk EXCEPT !.label = ".",
                    !.score = IF is_nan(tk.score) THEN 0 ELSE tk.score + 2]
    ELSE tk

Heuristic(tk) ==
    IF is_punctuation(tk.text) /\ (lt(tk.score, Threshold) \/ is_nan(tk.score))
    THEN [tk EXCEPT !.label = ".", !.score = One]
    ELSE tk

\* the low-confidence test of line 141 on the incoming token
LowConfidence(tk) == lt(tk.score, Threshold) \/ is_nan(tk.score)

\* "punctuation-only" as the specification words it: non-empty, all ASCII punctuation
PunctuationOnly(w) == Len(w) > 0 /\ \A i \in 1..Len(w) : w[i] \in AsciiPunctuation

(***************************************************************************)
(* The second closure (lines 148-151): the score is dropped.               *)
(***************************************************************************)
ToPOSTag(tk) == [word |-> tk.text, label |-> tk.label]

(***************************************************************************)
(* The inference backend, TokenClassificationModel::predict, as predict    *)
(* calls it on line 134: consolidate_sub_tokens = true, return_special =   *)
(* false.  A text is represented by the raw predictions the tokenizer and  *)
(* the model produce for it: one per sub-word fragment, the fragments of a *)
(* word being its first fragment followed by its continuation fragments.   *)
(***************************************************************************)
\* the raw predictions the texts are made of: a fragment's text, the model's
\* label and score for it, each as a word start or as a continuation
FragmentKinds ==
    {[text_fragment |-> <<"!">>, label |-> "NN", score |-> 2],
     [text_fragment |-> <<"!">>, label |-> "VB", score |-> 9],
     [text_fragment |-> <<"a">>, label |-> "NN", score |-> 9],
     [text_fragment |-> <<"a">>, label |-> "VB", score |-> 2]}

RawPredictions ==
    {[text_fragment |-> f.text_fragment, label |-> f.label, score |-> f.score,
      is_continuation |-> c] : f \in FragmentKinds, c \in BOOLEAN}

\* the raw prediction sequences of at most n fragments; a text never starts
\* with a continuation fragment
RECURSIVE RawSeqsUpTo(_, _)
RawSeqsUpTo(F, n) ==
    IF n = 0 THEN {<<>>}
    ELSE LET shorter == RawSeqsUpTo(F, n - 1)
         IN  shorter \cup
             {Append(s, r) : s \in {t \in shorter : Len(t) = n - 1},
                             r \in {q \in F : n = 1 => ~q.is_continuation}}

Raw(text, label, score, continuation) ==
    [text_fragment |-> text, label |-> label, score |-> score, is_continuation |-> continuation]

\* the texts the batches are made of: the empty text, a lone low-confidence
\* punctuation mark, one word of two fragments, two words
Corpus ==
    {<<>>,
     <<Raw(<<"!">>, "NN", 2, FALSE)>>,
     <<Raw(<<"a">>, "VB", 2, FALSE), Raw(<<"a">>, "NN", 9, TRUE)>>,
     <<Raw(<<"a">>, "NN", 9, FALSE), Raw(<<"!">>, "VB", 9, FALSE)>>}

RECURSIVE SeqsUpTo(_, _)
SeqsUpTo(S, n) ==
    IF n = 0 THEN {<<>>}
    ELSE LET shorter == SeqsUpTo(S, n - 1)
         IN  shorter \cup {Append(s, x) : s \in {t \in shorter : Len(t) = n - 1}, x \in S}

\* LabelAggregationOption, with the numeric-score variant of the design
Policies == {"First", "Last", "Mode", "Average"}

\* positions of the word starts of a text
WordStarts(raw) == {i \in 1..Len(raw) : ~raw[i].is_continuation}

\* the k-th word start, in sequence order
NthStart(raw, k) ==
    CHOOSE i \in WordStarts(raw) : Cardinality({j \in WordStarts(raw) : j <= i}) = k

\* the last fragment of the group that starts at i
GroupEnd(raw, i) ==
    CHOOSE j \in i..Len(raw) :
        /\ \A m \in (i + 1)..j : raw[m].is_continuation
        /\ (j < Len(raw) => ~raw[j + 1].is_continuation)

\* the word groups of a text, in word order
Groups(raw) ==
    [k \in 1..Cardinality(WordStarts(raw)) |->
        SubSeq(raw, NthStart(raw, k), GroupEnd(raw, NthStart(raw, k)))]

RECURSIVE ConcatFragments(_)
ConcatFragments(group) ==
    IF Len(group) = 0 THEN <<>>
    ELSE group[1].text_fragment \o ConcatFragments(Tail(group))

RECURSIVE SumScores(_, _)
SumScores(group, lab) ==
    IF Len(group) = 0 THEN 0
    ELSE (IF group[1].label = lab THEN group[1].score ELSE 0) + SumScores(Tail(group), lab)

LabelCount(group, lab) == Cardinality({i \in 1..Len(group) : group[i].label = lab})

\* the most frequent label of a group, ties broken by first occurrence
ModeIndex(group) ==
    CHOOSE i \in 1..Len(group) :
        /\ \A j \in 1..Len(group) : LabelCount(group, group[j].label) <= LabelCount(group, group[i].label)
        /\ \A j \in 1..(i - 1) : LabelCount(group, group[j].label) < LabelCount(group, group[i].label)

\* one token per group: the merged word, and label and score per policy
ConsolidateGroup(policy, group) ==
    LET pick == CASE policy = "First" -> 1
                  [] policy = "Last" -> Len(group)
                  [] OTHER -> ModeIndex(group)
        lab == group[pick].label
    IN  [text |-> ConcatFragments(group),
         label |-> lab,
         score |-> IF policy = "Average"
                   THEN SumScores(group, lab) \div LabelCount(group, lab)
                   ELSE group[pick].score]

\* TokenClassificationModel::predict(input, true, false): per text, the
\* consolidated tokens of its word groups, in word order
BackendPredict(model, texts) ==
    [i \in 1..Len(texts) |->
        [k \in 1..Len(Groups(texts[i])) |->
            ConsolidateGroup(model.label_aggregation_function, Groups(texts[i])[k])]]

\* POSConfig::default: the aggregation function of line 63
DefaultConfig == [label_aggregation_function |-> "First"]

(***************************************************************************)
(* POSModel::predict (lines 129-155): the backend's token sequences, each  *)
(* token through the heuristic and then turned into a POSTag.              *)
(***************************************************************************)
\* variant: punctuation tokens are filtered out instead of relabelled
predict_dropPunctuation(model, texts) ==
    LET sequences == BackendPredict(model, texts)
        kept(seq) == SelectSeq(seq, LAMBDA tk : ~is_punctuation(tk.text))
    IN  [i \in 1..Len(sequences) |->
            [j \in 1..Len(kept(sequences[i])) |-> ToPOSTag(Heuristic(kept(sequences[i])[j]))]]

\* variant: the sequences are collected in reverse order
predict_reversed(model, texts) ==
    LET sequences == BackendPredict(model, texts)
        n == Len(sequences)
    IN  [i \in 1..n |->
            [j \in 1..Len(sequences[n + 1 - i]) |-> ToPOSTag(Heuristic(sequences[n + 1 - i][j]))]]

\* variant: the heuristic runs on every fragment, before the aggregation
predict_perFragment(model, texts) ==
    LET fix(r) == LET tk == Heuristic([text |-> r.text_fragment, label |-> r.label, score |-> r.score])
                  IN  [r EXCEPT !.label = tk.label, !.score = tk.score]
        fixed == [i \in 1..Len(texts) |-> [j \in 1..Len(texts[i]) |-> fix(texts[i][j])]]
        sequences == BackendPredict(model, fixed)
    IN  [i \in 1..Len(sequences) |->
            [j \in 1..Len(sequences[i]) |-> ToPOSTag(sequences[i][j])]]

predict(model, texts) ==
    LET sequences == BackendPredict(model, texts)
    IN  [i \in 1..Len(sequences) |->
            [j \in 1..Len(sequences[i]) |-> ToPOSTag(Heuristic(sequences[i][j]))]]

Bijections(n) == {f \in [1..n -> 1..n] : \A i, j \in 1..n : f[i] = f[j] => i = j}

Permute(seq, f) == [i \in 1..Len(seq) |-> seq[f[i]]]

POff ==
    /\ ppc = "off"
    /\ self = DefaultConfig
    /\ input = <<>>
    /\ output = <<>>
    /\ perm = <<>>
    /\ outputPerm = <<>>
    /\ outputAlone = <<>>

HOff ==
    /\ hpc = "off"
    /\ token = NoToken
    /\ once = NoToken
    /\ twice = NoToken

Callers == 1..NumCallers

COff ==
    /\ pipeline = DefaultConfig
    /\ cpc = [c \in Callers |-> "off"]
    /\ cinput = [c \in Callers |-> <<>>]
    /\ csequence = [c \in Callers |-> <<>>]
    /\ ctags = [c \in Callers |-> <<>>]
    /\ cresult = [c \in Callers |-> <<>>]

\* an input path that cannot be read, an output path that does not exist
Missing == [readable |-> FALSE, text |-> <<>>]
Absent == [exists |-> FALSE, content |-> <<>>]

\* a file on disk with the given content
File(content) == [exists |-> TRUE, content |-> content]

MOff ==
    /\ mpc = "off"
    /\ argc = 0
    /\ inFile = Missing
    /\ outFile0 = Absent
    /\ outFile = Absent
    /\ contents = <<>>
    /\ result = <<>>
    /\ writes = <<>>
    /\ aborted = ""

(***************************************************************************)
(* Specification SpecPredict: predict on one text of up to MaxFrags        *)
(* fragments, or on a batch of up to MaxBatch texts; then on the permuted  *)
(* batch and on each text alone.                                           *)
(***************************************************************************)
PInit ==
    /\ HOff /\ COff /\ MOff
    /\ ppc = "ready"
    /\ self \in [label_aggregation_function : Policies]
    /\ input \in {<<t>> : t \in RawSeqsUpTo(RawPredictions, MaxFrags)}
                 \cup SeqsUpTo(Corpus, MaxBatch)
    /\ output = <<>>
    /\ perm = <<>>
    /\ outputPerm = <<>>
    /\ outputAlone = <<>>

Predict ==
    /\ ppc = "ready"
    /\ output' = predict(self, input)
    /\ ppc' = "predicted"
    /\ UNCHANGED <<self, input, perm, outputPerm, outputAlone>>
    /\ UNCHANGED <<hvars, cvars, mvars>>

PredictPermuted ==
    /\ ppc = "predicted"
    /\ \E f \in Bijections(Len(input)) :
          /\ perm' = f
          /\ outputPerm' = predict(self, Permute(input, f))
    /\ outputAlone' = [i \in 1..Len(input) |-> predict(self, <<input[i]>>)]
    /\ ppc' = "compared"
    /\ UNCHANGED <<self, input, output>>
    /\ UNCHANGED <<hvars, cvars, mvars>>

PNext == Predict \/ PredictPermuted

SpecPredict == PInit /\ [][PNext]_vars

\* C4: the inner sequence of a text holds exactly one POSTag per word group,
\* in word order, whatever the aggregation policy; continuation fragments
\* add no entry and an empty text yields an empty inner sequence.
C4_OneTagPerWord ==
    ppc \in {"predicted", "compared"} =>
        /\ Len(output) = Len(input)
        /\ \A i \in 1..Len(input) :
              /\ Len(output[i]) = Cardinality(WordStarts(input[i]))
              /\ \A k \in 1..Len(output[i]) :
                    output[i][k].word = ConcatFragments(Groups(input[i])[k])
              /\ \A p \in Policies :
                    Len(predict([label_aggregation_function |-> p], input)[i]) = Len(output[i])
              /\ (input[i] = <<>> => output[i] = <<>>)

C4_Witness ==
    /\ ppc = "predicted"
    /\ Len(input) = 1
    /\ Len(input[1]) = 3
    /\ input[1][2].is_continuation /\ ~input[1][3].is_continuation
    /\ input[1][3].text_fragment = <<"!">> /\ input[1][3].score = 2
    /\ Len(output[1]) = 2

\* C7: one inner sequence per input text, in input order, each depending on
\* its own text only: permuting the batch permutes the outputs, and each
\* inner sequence is the one the text gets when predicted alone.
C7_BatchIndependence ==
    ppc = "compared" =>
        /\ Len(output) = Len(input)
        /\ \A i \in 1..Len(input) : outputAlone[i] = <<output[i]>>
        /\ outputPerm = Permute(output, perm)

C7_Witness ==
    /\ ppc = "compared"
    /\ Len(input) = 2
    /\ perm = <<2, 1>>
    /\ Len(output[1]) # Len(output[2])
    /\ outputPerm = <<output[2], output[1]>>

\* C9: the heuristic acts after aggregation: per word group, its tests are
\* made on the merged word and the aggregated score (under First, the score
\* of the first fragment), never on a single fragment.
C9_AfterAggregation ==
    ppc \in {"predicted", "compared"} =>
        \A i \in 1..Len(input) :
            \A k \in 1..Len(Groups(input[i])) :
                LET group == Groups(input[i])[k]
                    word == ConcatFragments(group)
                    policy == self.label_aggregation_function
                    agg == IF policy = "First" THEN group[1]
                           ELSE ConsolidateGroup(policy, group)
                IN  output[i][k].label =
                        IF PunctuationOnly(word) /\ (lt(agg.score, Threshold) \/ is_nan(agg.score))
                        THEN "." ELSE agg.label

C9_Witness ==
    /\ ppc = "predicted"
    /\ self.label_aggregation_function = "First"
    /\ Len(input) = 1 /\ Len(input[1]) = 2
    /\ input[1][1] = [text_fragment |-> <<"!">>, label |-> "NN", score |-> 2, is_continuation |-> FALSE]
    /\ input[1][2] = [text_fragment |-> <<"a">>, label |-> "VB", score |-> 2, is_continuation |-> TRUE]
    /\ output[1] = <<[word |-> <<"!", "a">>, label |-> "NN"]>>

(***************************************************************************)
(* Specification SpecConcurrent: NumCallers callers run predict on the     *)
(* same POSModel, each with its own one-text batch; the steps of the calls *)
(* interleave.  predict borrows the model immutably (&self, line 129) and  *)
(* keeps the token iterator and the collected tags in the call's frame.    *)
(***************************************************************************)
CInit ==
    /\ HOff /\ POff /\ MOff
    /\ pipeline \in [label_aggregation_function : Policies]
    /\ cpc = [c \in Callers |-> "idle"]
    /\ cinput \in [Callers -> Corpus]
    /\ csequence = [c \in Callers |-> <<>>]
    /\ ctags = [c \in Callers |-> <<>>]
    /\ cresult = [c \in Callers |-> <<>>]

\* variant: the tokens are kept in a buffer of the model that the calls in
\* flight share
Call_sharedBuffer(c) ==
    /\ cpc[c] = "idle"
    /\ LET seq == BackendPredict(pipeline, <<cinput[c]>>)[1]
       IN  csequence' = [d \in Callers |->
                            IF d = c \/ cpc[d] = "tokens" THEN seq ELSE csequence[d]]
    /\ cpc' = [cpc EXCEPT ![c] = "tokens"]
    /\ UNCHANGED <<pipeline, cinput, ctags, cresult>>
    /\ UNCHANGED <<hvars, pvars, mvars>>

\* lines 133-135: the backend's result becomes the call's own iterator
Call(c) ==
    /\ cpc[c] = "idle"
    /\ csequence' = [csequence EXCEPT ![c] = BackendPredict(pipeline, <<cinput[c]>>)[1]]
    /\ cpc' = [cpc EXCEPT ![c] = "tokens"]
    /\ UNCHANGED <<pipeline, cinput, ctags, cresult>>
    /\ UNCHANGED <<hvars, pvars, mvars>>

\* lines 139-151: the next token through both closures
MapToken(c) ==
    /\ cpc[c] = "tokens"
    /\ csequence[c] # <<>>
    /\ ctags' = [ctags EXCEPT ![c] = Append(@, ToPOSTag(Heuristic(Head(csequence[c]))))]
    /\ csequence' = [csequence EXCEPT ![c] = Tail(@)]
    /\ UNCHANGED <<pipeline, cpc, cinput, cresult>>
    /\ UNCHANGED <<hvars, pvars, mvars>>

\* lines 152-154: collect and return
Return(c) ==
    /\ cpc[c] = "tokens"
    /\ csequence[c] = <<>>
    /\ cresult' = [cresult EXCEPT ![c] = <<ctags[c]>>]
    /\ cpc' = [cpc EXCEPT ![c] = "done"]
    /\ UNCHANGED <<pipeline, cinput, csequence, ctags>>
    /\ UNCHANGED <<hvars, pvars, mvars>>

CNext == \E c \in Callers : Call(c) \/ MapToken(c) \/ Return(c)

SpecConcurrent == CInit /\ [][CNext]_vars

\* C6: concurrent predict calls on one pipeline, in any interleaving, each
\* return what the call returns when run alone, and no step of predict
\* writes the shared pipeline.
C6_NoCrossContamination ==
    /\ [](\A c \in Callers :
             cpc[c] = "done" => cresult[c] = predict(pipeline, <<cinput[c]>>))
    /\ [][pipeline' = pipeline]_vars

C6_Witness ==
    /\ cpc[1] = "done"
    /\ cpc[2] = "tokens" /\ ctags[2] # <<>> /\ csequence[2] # <<>>
    /\ cinput[1] # cinput[2]
    /\ cresult[1] = <<<<[word |-> <<"!">>, label |-> "."]>>>>

(***************************************************************************)
(* rust_tag_r's serialization (lines 22-26): the Debug form of each inner  *)
(* Vec<POSTag>, appended in order.  A string is a sequence of pieces; the  *)
(* characters of the alphabet need no escaping in a Debug string.          *)
(***************************************************************************)
DebugString(chars) == <<"\"">> \o chars \o <<"\"">>

\* #[derive(Debug)] on POSTag
DebugPOSTag(tag) ==
    <<"POSTag { word: ">> \o DebugString(tag.word)
        \o <<", label: ">> \o DebugString(<<tag.label>>) \o <<" }">>

RECURSIVE DebugItems(_)
DebugItems(tags) ==
    IF Len(tags) = 0 THEN <<>>
    ELSE IF Len(tags) = 1 THEN DebugPOSTag(tags[1])
    ELSE DebugPOSTag(tags[1]) \o <<", ">> \o DebugItems(Tail(tags))

\* Debug of Vec<POSTag>
DebugVec(tags) == <<"[">> \o DebugItems(tags) \o <<"]">>

RECURSIVE Serialize(_)
Serialize(out) ==
    IF Len(out) = 0 THEN <<>>
    ELSE DebugVec(out[1]) \o Serialize(Tail(out))

\* the text of an input file: the raw predictions the backend makes of it
FileTexts == Corpus

\* what rust_tag_r returns for a text when nothing fails
rust_tag_r(text) == Serialize(predict(DefaultConfig, <<text>>))

(***************************************************************************)
(* Specification SpecDriver: one run of main.                              *)
(***************************************************************************)
MInit ==
    /\ HOff /\ POff /\ COff
    /\ mpc = "start"
    /\ argc \in 1..MaxArgs
    /\ inFile \in {[readable |-> TRUE, text |-> t] : t \in FileTexts} \cup {Missing}
    /\ outFile0 \in {Absent, File(<<"old">>)}
    /\ outFile = outFile0
    /\ contents = <<>>
    /\ result = <<>>
    /\ writes = <<>>
    /\ aborted = ""

\* main.rs lines 17-25: the argument count
CheckArgs ==
    /\ mpc = "start"
    /\ mpc' = IF argc # 3 THEN "exited" ELSE "reading"
    /\ UNCHANGED <<argc, inFile, outFile0, outFile, contents, result, writes, aborted>>
    /\ UNCHANGED <<hvars, pvars, cvars>>

\* main.rs lines 30-31: read_to_string(..).expect(..)
ReadFile ==
    /\ mpc = "reading"
    /\ IF ~inFile.readable
       THEN /\ mpc' = "aborted"
            /\ aborted' = "main.read"
            /\ UNCHANGED contents
       ELSE /\ mpc' = "constructing"
            /\ contents' = inFile.text
            /\ UNCHANGED aborted
    /\ UNCHANGED <<argc, inFile, outFile0, outFile, result, writes>>
    /\ UNCHANGED <<hvars, pvars, cvars>>

\* variant: the error is swallowed and an empty result handed on
NewModel_swallowError ==
    /\ mpc = "constructing"
    /\ \E ok \in BOOLEAN :
          IF ok
          THEN /\ mpc' = "predicting"
               /\ UNCHANGED <<aborted, result>>
          ELSE /\ mpc' = "writing"
               /\ result' = <<>>
               /\ UNCHANGED aborted
    /\ UNCHANGED <<argc, inFile, outFile0, outFile, contents, writes>>
    /\ UNCHANGED <<hvars, pvars, cvars>>

\* rusttagr.rs lines 10 and 17-20: POSModel::new succeeds, or its error is
\* returned by try_tag and rust_tag_r panics on it
NewModel ==
    /\ mpc = "constructing"
    /\ \E ok \in BOOLEAN :
          IF ok
          THEN /\ mpc' = "predicting"
               /\ UNCHANGED aborted
          ELSE /\ mpc' = "aborted"
               /\ aborted' = "rust_tag_r"
    /\ UNCHANGED <<argc, inFile, outFile0, outFile, contents, result, writes>>
    /\ UNCHANGED <<hvars, pvars, cvars>>

\* rusttagr.rs lines 12 and 22-26: predict has no error value to return
\* (pos_tagging.rs line 129), so a fault of the backend unwinds from it
RunPredict ==
    /\ mpc = "predicting"
    /\ \E fault \in BOOLEAN :
          IF fault
          THEN /\ mpc' = "aborted"
               /\ aborted' = "predict"
               /\ UNCHANGED result
          ELSE /\ mpc' = "writing"
               /\ result' = Serialize(predict(DefaultConfig, <<contents>>))
               /\ UNCHANGED aborted
    /\ UNCHANGED <<argc, inFile, outFile0, outFile, contents, writes>>
    /\ UNCHANGED <<hvars, pvars, cvars>>

\* main.rs lines 36-37: fs::write(..).expect(..); the file is created or
\* truncated and then written, and either step can fail
WriteFile ==
    /\ mpc = "writing"
    /\ writes' = Append(writes, result)
    /\ \E outcome \in {"ok", "create failed", "write failed"} :
          CASE outcome = "ok" ->
                 /\ outFile' = File(result)
                 /\ mpc' = "exited"
                 /\ UNCHANGED aborted
            [] outcome = "create failed" ->
                 /\ UNCHANGED outFile
                 /\ mpc' = "aborted"
                 /\ aborted' = "main.write"
            [] outcome = "write failed" ->
                 /\ \E n \in 0..(Len(result) - 1) : outFile' = File(SubSeq(result, 1, n))
                 /\ mpc' = "aborted"
                 /\ aborted' = "main.write"
    /\ UNCHANGED <<argc, inFile, outFile0, contents, result>>
    /\ UNCHANGED <<hvars, pvars, cvars>>

MNext == CheckArgs \/ ReadFile \/ NewModel \/ RunPredict \/ WriteFile

SpecDriver == MInit /\ [][MNext]_vars

\* C5: a failure of construction or of prediction comes back to the caller
\* as an error value through every layer, rust_tag_r included; the core
\* never aborts the process.
C5_ErrorsAreValues ==
    aborted \notin {"rust_tag_r", "predict"}

\* C10: the output file is written at most once, with the complete
\* serialized result, and only after two path arguments, a full read and a
\* successful tagging; after a wrong argument count, a failed read or a
\* failed construction or prediction it is as it was before the run.
C10_AllOrNothing ==
    /\ Len(writes) <= 1
    /\ \A k \in 1..Len(writes) :
          /\ argc = 3
          /\ inFile.readable /\ contents = inFile.text
          /\ writes[k] = rust_tag_r(inFile.text)
    /\ (mpc = "exited" /\ argc = 3) => outFile = File(rust_tag_r(inFile.text))
    /\ (argc # 3 \/ aborted \in {"main.read", "rust_tag_r", "predict"} \/ writes = <<>>)
          => outFile = outFile0

C10_Witness ==
    /\ mpc = "exited"
    /\ argc = 3
    /\ Len(inFile.text) = 2 /\ ~inFile.text[2].is_continuation
    /\ outFile0 = File(<<"old">>)
    /\ writes = <<outFile.content>>
    /\ outFile.content = <<"[", "POSTag { word: ", "\"", "a", "\"", ", label: ", "\"", "NN", "\"", " }", ", ",
                           "POSTag { word: ", "\"", "!", "\"", ", label: ", "\"", "VB", "\"", " }", "]">>

(***************************************************************************)
(* Specification Spec: one aggregated token run through the heuristic,     *)
(* and the heuristic run again on its own output.                          *)
(***************************************************************************)
Init ==
    /\ hpc = "raw"
    /\ token \in Tokens
    /\ once = NoToken
    /\ twice = NoToken
    /\ POff /\ COff /\ MOff

ApplyHeuristic ==
    /\ hpc = "raw"
    /\ once' = Heuristic(token)
    /\ hpc' = "once"
    /\ UNCHANGED <<token, twice>>
    /\ UNCHANGED <<pvars, cvars, mvars>>

ReapplyHeuristic ==
    /\ hpc = "once"
    /\ twice' = Heuristic(once)
    /\ hpc' = "twice"
    /\ UNCHANGED <<token, once>>
    /\ UNCHANGED <<pvars, cvars, mvars>>

Next == ApplyHeuristic \/ ReapplyHeuristic

Spec == Init /\ [][Next]_vars

\* C1: a punctuation-only word with a score below 0.5 or NaN is finalized
\* with label "." and score 1.0, whatever label the model predicted.
C1_Override ==
    (hpc \in {"once", "twice"} /\ PunctuationOnly(token.text) /\ LowConfidence(token))
        => /\ ToPOSTag(once) = [word |-> token.text, label |-> "."]
           /\ once.score = One

C1_Witness ==
    /\ hpc = "once"
    /\ token = [text |-> <<"!">>, label |-> "NN", score |-> 2]
    /\ ToPOSTag(once) = [word |-> <<"!">>, label |-> "."]

\* C2: a word is punctuation-only exactly when it is non-empty and all of
\* its characters are ASCII punctuation; an empty word with a low or NaN
\* score keeps the model's label.
C2_EmptyNotPunctuation ==
    hpc \in {"once", "twice"} =>
        /\ is_punctuation(token.text) <=> PunctuationOnly(token.text)
        /\ (token.text = <<>> /\ LowConfidence(token)) => once.label = token.label

\* C3: a token with a non-punctuation character, or with a valid score of
\* at least 0.5, keeps its aggregated label; every token keeps its word.
C3_Frame ==
    hpc \in {"once", "twice"} =>
        /\ ToPOSTag(once).word = token.text
        /\ ( \/ \E i \in 1..Len(token.text) : token.text[i] \notin AsciiPunctuation
             \/ (~is_nan(token.score) /\ token.score >= Threshold) )
           => ToPOSTag(once).label = token.label

C3_Witness ==
    /\ hpc = "once"
    /\ token = [text |-> <<"!">>, label |-> "NN", score |-> 9]
    /\ ToPOSTag(once) = [word |-> <<"!">>, label |-> "NN"]

\* C8: the heuristic is idempotent: applied to its own output it changes
\* nothing, and a word labelled "." with score 1.0 stays as it is.
C8_Idempotent ==
    /\ hpc = "twice" => twice = once
    /\ (hpc \in {"once", "twice"} /\ token.label = "." /\ token.score = One) => once = token

C8_Witness ==
    /\ hpc = "twice"
    /\ token = [text |-> <<"!">>, label |-> "NN", score |-> 2]
    /\ once = [text |-> <<"!">>, label |-> ".", score |-> One]
    /\ twice = once
====
